---- MODULE Spec2Model ----
(***************************************************************************)
(* A model of the flashcard "Decks" mockup:                                *)
(*   frontend.py  DecksWindow: the two deck trees, the selection handler   *)
(*                and the toolbar actions;                                 *)
(*   backend.py   the sqlite schema initializer and the row inserters.     *)
(* Four specifications share the variables:                                *)
(*   Spec       the window as the program runs it (the hard-coded demo     *)
(*              list), construction followed by user events;               *)
(*   SpecBuild  the tree builder run on every bounded entry list;          *)
(*   SpecSync   the selection handler run on every pair of bounded trees;  *)
(*   SpecDb     the persistence helper, calls in any order.                *)
(***************************************************************************)
EXTENDS Integers, Sequences, FiniteSets, TLC

VARIABLES
    \* frontend.py, DecksWindow
    pc,                 \* "init": before _populate_demo_decks; "running": event loop
    demo,               \* the list of (path, counts) entries being built
    deck_tree,          \* left model: sequence of QStandardItem, in creation order
    deck_table,         \* right widget: sequence of QTreeWidgetItem, in creation order
    selected,           \* deck_tree's selected index (an item number, NoItem if none)
    current_item,       \* deck_table.currentItem() (an item number, NoItem if None)
    status,             \* the status bar's message
    connected,          \* selectionChanged is connected to the handler (line 119)
    act_decks_checked,  \* act_decks.isChecked()
    dialogs,            \* the BlankDialog windows opened so far
    \* backend.py, main.db
    schema,             \* sqlite_master: the names of the tables, in creation order
    rows,               \* table name -> its rows, in insertion order
    now,                \* what int(time.time()) returns
    call,               \* the last call made and its arguments
    raised,             \* the exception the last call raised, "" if none
    ret                 \* the value the last call returned

guiVars == <<pc, demo, deck_tree, deck_table, selected, current_item, status,
             connected, act_decks_checked, dialogs>>
dbVars == <<schema, rows, now, call, raised, ret>>
vars == <<pc, demo, deck_tree, deck_table, selected, current_item, status,
          connected, act_decks_checked, dialogs, schema, rows, now, call, raised, ret>>

(***************************************************************************)
(* Bounds and input sets                                                   *)
(***************************************************************************)
MaxEntries == 2         \* entries in a list given to the tree builder
MaxSyncLeft == 1        \* entries of the primary tree's list in SpecSync
MaxDialogs == 2         \* blank windows opened
MaxRows == 1            \* rows inserted into one table
MaxTime == 1            \* clock readings after the first

\* Root-to-leaf paths: shared prefixes, a name reused at two depths and under
\* two parents, an ancestor that is itself an entry.
Paths ==
    { <<"Math">>,
      <<"Math", "Calculus">>,
      <<"Math", "Calculus", "Derivatives">>,
      <<"Math", "Calculus", "Integrals">>,
      <<"Math", "Math">>,
      <<"Calculus">>,
      <<"Calculus", "Integrals">> }

CountTriples == { <<1, 0, 0>>, <<0, 0, 4>>, <<7, 2, 13>> }

Entries == { <<p, c>> : p \in Paths, c \in CountTriples }

\* the selection handler reads no count: one triple is enough for its trees
SyncEntries == { <<p, <<7, 2, 13>>>> : p \in Paths }

SeqsUpTo(S, n) == UNION { [1..k -> S] : k \in 0..n }

NoItem == 0             \* None / an invalid index; also the invisible root as a parent

(***************************************************************************)
(* Python text helpers                                                     *)
(***************************************************************************)
Digit(d) ==
    CASE d = 0 -> "0" [] d = 1 -> "1" [] d = 2 -> "2" [] d = 3 -> "3"
      [] d = 4 -> "4" [] d = 5 -> "5" [] d = 6 -> "6" [] d = 7 -> "7"
      [] d = 8 -> "8" [] d = 9 -> "9"

RECURSIVE Str(_)
\* str(n) of a non-negative int
Str(n) == IF n < 10 THEN Digit(n) ELSE Str(n \div 10) \o Digit(n % 10)

RECURSIVE Join(_, _)
\* sep.join(parts)
Join(sep, parts) ==
    IF Len(parts) = 0 THEN ""
    ELSE IF Len(parts) = 1 THEN parts[1]
    ELSE parts[1] \o sep \o Join(sep, Tail(parts))

Front(s) == SubSeq(s, 1, Len(s) - 1)

(***************************************************************************)
(* frontend.py: _populate_demo_decks                                       *)
(***************************************************************************)
DemoDecks ==
    << << <<"Default">>, <<3, 1, 5>> >>,
       << <<"Languages", "Japanese">>, <<7, 2, 13>> >>,
       << <<"Languages", "Spanish">>, <<2, 0, 8>> >>,
       << <<"Math", "Calculus", "Derivatives">>, <<1, 0, 0>> >>,
       << <<"Math", "Calculus", "Integrals">>, <<0, 0, 4>> >>,
       << <<"Misc">>, <<5, 4, 2>> >> >>

EmptyNodes == [k \in {} |-> NoItem]     \* left_nodes = {} / right_nodes = {}

\* QStandardItem(name), appended under parent_item; bold when top-level
NewLeftItem(name, parent_item, top) ==
    [text |-> name, parent |-> parent_item, bold |-> top, editable |-> FALSE]

\* the bug "if name not in left_nodes": a name never equals a tuple key
KeyInLeftNodesByName(nodes, key) == FALSE

\* parent_key in left_nodes
KeyInLeftNodes(nodes, key) == key \in DOMAIN nodes

RECURSIVE LeftWalk(_, _, _, _)
\* the inner loop "for idx, name in enumerate(path)", idx counted from 1 here
LeftWalk(st, path, idx, parent_item) ==
    IF idx > Len(path) THEN st
    ELSE
        LET parent_key == SubSeq(path, 1, idx)
            item == Len(st.items) + 1
            st1 == IF ~KeyInLeftNodes(st.nodes, parent_key)
                   THEN [items |-> Append(st.items,
                                          NewLeftItem(path[idx], parent_item, idx = 1)),
                         nodes |-> (parent_key :> item) @@ st.nodes]
                   ELSE st
        IN  LeftWalk(st1, path, idx + 1, st1.nodes[parent_key])

RECURSIVE BuildLeft(_, _, _)
\* the outer loop "for path, counts in demo" over the left model
BuildLeft(st, entries, i) ==
    IF i > Len(entries) THEN st
    ELSE BuildLeft(LeftWalk(st, entries[i][1], 1, NoItem), entries, i + 1)

BuildLeftTree(entries) ==
    BuildLeft([items |-> <<>>, nodes |-> EmptyNodes], entries, 1).items

\* the foreground a QTreeWidgetItem is built with: none is ever set
DefaultForeground == "default"

\* QTreeWidgetItem(parent, [name]); setExpanded(True)
NewRightItem(name, parent_item) ==
    [text |-> <<name, "", "", "">>, parent |-> parent_item, expanded |-> TRUE,
     foreground |-> [c \in 1..4 |-> DefaultForeground]]

\* key in right_nodes
KeyInRightNodes(nodes, key) == key \in DOMAIN nodes

RECURSIVE get_or_create_right_node(_, _)
\* returns the tree state and the node found or created
get_or_create_right_node(st, path_parts) ==
    IF KeyInRightNodes(st.nodes, path_parts)
    THEN [st |-> st, node |-> st.nodes[path_parts]]
    ELSE IF Len(path_parts) = 1
    THEN LET node == Len(st.items) + 1
         IN [st |-> [items |-> Append(st.items, NewRightItem(path_parts[1], NoItem)),
                     nodes |-> (path_parts :> node) @@ st.nodes],
             node |-> node]
    ELSE LET up == get_or_create_right_node(st, Front(path_parts))
             node == Len(up.st.items) + 1
         IN [st |-> [items |-> Append(up.st.items,
                                      NewRightItem(path_parts[Len(path_parts)], up.node)),
                     nodes |-> (path_parts :> node) @@ up.st.nodes],
             node |-> node]

\* the children of parent_item, in row order
Children(items, parent_item) ==
    { i \in 1..Len(items) : items[i].parent = parent_item }

\* the bug of filling the counts only while the node has no child yet
SetCountsLeafOnly(items, node, counts) ==
    IF Children(items, node) = {}
    THEN [items EXCEPT ![node].text =
                           <<@[1], Str(counts[1]), Str(counts[2]), Str(counts[3])>>]
    ELSE items

\* node.setText(1, str(new_c)); node.setText(2, str(learn_c)); node.setText(3, str(due_c))
SetCounts(items, node, counts) ==
    [items EXCEPT ![node].text = <<@[1], Str(counts[1]), Str(counts[2]), Str(counts[3])>>]

RECURSIVE BuildRight(_, _, _)
\* the loop "for path, counts in demo" that fills the right widget
BuildRight(st, entries, i) ==
    IF i > Len(entries) THEN st
    ELSE LET r == get_or_create_right_node(st, entries[i][1])
         IN BuildRight([items |-> SetCounts(r.st.items, r.node, entries[i][2]),
                        nodes |-> r.st.nodes],
                       entries, i + 1)

BuildRightTree(entries) ==
    BuildRight([items |-> <<>>, nodes |-> EmptyNodes], entries, 1).items

\* model.index(0, 0): the first top-level item, invalid when the model is empty
FirstIndex(items) == IF Len(items) > 0 THEN 1 ELSE NoItem

(***************************************************************************)
(* frontend.py: _on_tree_selection_changed                                 *)
(***************************************************************************)
RECURSIVE PathToRoot(_, _)
\* "while cur.isValid(): path_parts.insert(0, model.data(cur)); cur = cur.parent()"
PathToRoot(items, cur) ==
    IF cur = NoItem THEN <<>>
    ELSE Append(PathToRoot(items, items[cur].parent), items[cur].text)

\* the bug of scanning the whole tree for the name instead of parent_item's children
FindAnywhere(items, parent_item, target_name) ==
    LET hits == { i \in 1..Len(items) : items[i].text[1] = target_name }
    IN IF hits = {} THEN NoItem ELSE CHOOSE i \in hits : \A j \in hits : i <= j

\* find_node_containing: the first child of parent_item whose text(0) is target_name
find_node_containing(items, parent_item, target_name) ==
    LET hits == { i \in Children(items, parent_item) : items[i].text[1] = target_name }
    IN IF hits = {} THEN NoItem ELSE CHOOSE i \in hits : \A j \in hits : i <= j

RECURSIVE WalkDown(_, _, _, _, _)
\* "for part in path_parts: match = find(...); if match is None: break; parent = match"
WalkDown(items, path_parts, k, parent_item, match) ==
    IF k > Len(path_parts) THEN match
    ELSE LET m == find_node_containing(items, parent_item, path_parts[k])
         IN IF m = NoItem THEN NoItem
            ELSE WalkDown(items, path_parts, k + 1, m, m)

NotFoundMessage == "Selected deck not found on right pane"

\* the handler's effect: the new current item and status message
OnTreeSelectionChanged(left, right, sel, cur_item, msg) ==
    IF sel = NoItem THEN [current_item |-> cur_item, status |-> msg]
    ELSE LET path_parts == PathToRoot(left, sel)
             match == WalkDown(right, path_parts, 1, NoItem, NoItem)
         IN IF match # NoItem
            THEN [current_item |-> match,
                  status |-> "Selected deck: " \o Join(" / ", path_parts)]
            ELSE [current_item |-> NoItem, status |-> NotFoundMessage]

\* selectionChanged reaches the handler only once it is connected
EmitSelectionChanged(is_connected, left, right, sel, cur_item, msg) ==
    IF is_connected THEN OnTreeSelectionChanged(left, right, sel, cur_item, msg)
    ELSE [current_item |-> cur_item, status |-> msg]

(***************************************************************************)
(* frontend.py: toolbar actions                                            *)
(***************************************************************************)
\* the bug of leaving the action as the click toggled it
KeepToggled(checked) == checked

\* _on_decks_toggled: self.act_decks.setChecked(True)
OnDecksToggled(checked) == TRUE

\* Qt.WindowModality of the value passed to setWindowModality
WindowModality(v) ==
    CASE v = 0 -> "NonModal" [] v = 1 -> "WindowModal" [] v = 2 -> "ApplicationModal"

\* Python int(bool)
BoolToInt(b) == IF b THEN 1 ELSE 0

Titles == {"Add", "Browse", "Stats"}

\* BlankDialog(title, parent=self); dlg.setWindowModality(False); dlg.show()
NewBlankDialog(title) ==
    [title |-> title, label |-> title \o " - (blank window)",
     modality |-> WindowModality(BoolToInt(FALSE)), visible |-> TRUE]

(***************************************************************************)
(* backend.py: values, schema and statements of main.db                    *)
(***************************************************************************)
\* a Python argument or an SQLite cell: None/NULL, an int or a str/TEXT
PyNone == [t |-> "null", i |-> 0, s |-> ""]
PyInt(n) == [t |-> "int", i |-> n, s |-> ""]
PyStr(x) == [t |-> "text", i |-> 0, s |-> x]

\* Python truth value of an argument: None, 0 and "" are false
Truthy(v) == (v.t = "int" /\ v.i # 0) \/ (v.t = "text" /\ v.s # "")

\* "a or b"
PyOr(a, b) == IF Truthy(a) THEN a ELSE b

DigitChars == {"0", "1", "2", "3", "4", "5", "6", "7", "8", "9"}

\* the text is a well-formed non-negative integer literal
IsDigits(x) == Len(x) > 0 /\ \A k \in 1..Len(x) : SubSeq(x, k, k) \in DigitChars

DigitOf(ch) == CHOOSE d \in 0..9 : Digit(d) = ch

RECURSIVE ParseInt(_)
ParseInt(x) ==
    IF Len(x) = 1 THEN DigitOf(x)
    ELSE 10 * ParseInt(SubSeq(x, 1, Len(x) - 1)) + DigitOf(SubSeq(x, Len(x), Len(x)))

\* SQLite column affinity applied to a value being stored
ApplyAffinity(affinity, v) ==
    CASE affinity = "TEXT" /\ v.t = "int" -> PyStr(Str(v.i))
      [] affinity \in {"INTEGER", "NUMERIC"} /\ v.t = "text" /\ IsDigits(v.s) ->
            PyInt(ParseInt(v.s))
      [] OTHER -> v

Column(name, affinity, notnull, dflt) ==
    [name |-> name, affinity |-> affinity, notnull |-> notnull, dflt |-> dflt]

\* the three CREATE TABLE statements of create_db
TableColumns(table) ==
    CASE table = "decks" ->
            << Column("id", "INTEGER", FALSE, PyNone),
               Column("name", "TEXT", TRUE, PyNone),
               Column("parent_deck_id", "INTEGER", FALSE, PyNone) >>
      [] table = "card_types" ->
            << Column("id", "INTEGER", FALSE, PyNone),
               Column("fields", "TEXT", TRUE, PyNone),
               Column("tags", "TEXT", FALSE, PyNone),
               Column("modified_at", "INTEGER", TRUE, PyNone) >>
      [] table = "cards" ->
            << Column("id", "INTEGER", FALSE, PyNone),
               Column("card_type_id", "INTEGER", FALSE, PyNone),
               Column("deck_id", "INTEGER", FALSE, PyNone),
               Column("card_ord", "INTEGER", FALSE, PyNone),
               Column("created_at", "INTEGER", TRUE, PyNone),
               Column("next_due", "INTEGER", FALSE, PyNone),
               Column("template_front", "TEXT", FALSE, PyNone),
               Column("template_back", "TEXT", FALSE, PyNone),
               Column("is_active", "NUMERIC", FALSE, PyInt(1)) >>

Range(f) == { f[k] : k \in DOMAIN f }

\* a statement's outcome: the store, the exception raised, cursor.lastrowid
Store(sch, rws) == [schema |-> sch, rows |-> rws, error |-> "", lastrowid |-> 0]

\* the bug of a plain CREATE TABLE: it raises when the table is there
CreateTable(db, table) ==
    IF db.error # "" THEN db
    ELSE IF table \in Range(db.schema)
    THEN [db EXCEPT !.error = "OperationalError: table " \o table \o " already exists"]
    ELSE [db EXCEPT !.schema = Append(@, table), !.rows = (table :> <<>>) @@ @]

\* CREATE TABLE IF NOT EXISTS table (...)
CreateTableIfNotExists(db, table) ==
    IF db.error # "" THEN db
    ELSE IF table \in Range(db.schema) THEN db
    ELSE [db EXCEPT !.schema = Append(@, table), !.rows = (table :> <<>>) @@ @]

\* INSERT INTO table (cols) VALUES (?, ...) with vals bound in order
InsertInto(db, table, cols, vals) ==
    IF db.error # "" THEN db
    ELSE IF table \notin Range(db.schema)
    THEN [db EXCEPT !.error = "OperationalError: no such table: " \o table]
    ELSE
        LET defs == TableColumns(table)
            id == Len(db.rows[table]) + 1
            Cell(d) ==
                IF d.name = "id" THEN PyInt(id)
                ELSE IF \E k \in 1..Len(cols) : cols[k] = d.name
                THEN ApplyAffinity(d.affinity,
                                   vals[CHOOSE k \in 1..Len(cols) : cols[k] = d.name])
                ELSE d.dflt
            row == [c \in { defs[k].name : k \in 1..Len(defs) } |->
                       Cell(defs[CHOOSE k \in 1..Len(defs) : defs[k].name = c])]
        IN IF \E k \in 1..Len(defs) : defs[k].notnull /\ row[defs[k].name].t = "null"
           THEN [db EXCEPT !.error = "IntegrityError: NOT NULL constraint failed"]
           ELSE [db EXCEPT !.rows[table] = Append(@, row), !.lastrowid = id]

\* create_db: the three statements in order
create_db(db) ==
    CreateTableIfNotExists(
        CreateTableIfNotExists(
            CreateTableIfNotExists(db, "decks"), "card_types"), "cards")

\* add_deck(name, parent_deck_id)
add_deck(db, name, parent_deck_id) ==
    InsertInto(db, "decks", <<"name", "parent_deck_id">>, <<name, parent_deck_id>>)

RECURSIVE JsonItems(_)
JsonItems(pairs) ==
    IF Len(pairs) = 0 THEN ""
    ELSE "\"" \o pairs[1][1] \o "\": \"" \o pairs[1][2] \o "\""
         \o (IF Len(pairs) > 1 THEN ", " ELSE "") \o JsonItems(Tail(pairs))

\* json.dumps of a dict of strings, given as its items in order
JsonDumps(pairs) == "{" \o JsonItems(pairs) \o "}"

\* add_card_type(fields_dict, tags) at time modified_at
add_card_type(db, fields_dict, tags, modified_at) ==
    InsertInto(db, "notes", <<"fields", "tags", "modified_at">>,
               <<PyStr(JsonDumps(fields_dict)), tags, PyInt(modified_at)>>)

SecondsPerDay == 86400

\* "next_due = next_due or created_at + 86400"
DefaultedDue(next_due, created_at) == PyOr(next_due, PyInt(created_at + SecondsPerDay))

\* add_card(...) at time created_at: the columns and the tuple bound to them
add_card(db, card_type_id, deck_id, card_ord, template_front, template_back, next_due, is_active, created_at) ==
    InsertInto(db, "cards",
               <<"card_type_id", "deck_id", "card_ord", "created_at", "next_due",
                 "template_front", "template_back", "is_active">>,
               <<card_type_id, deck_id, PyInt(BoolToInt(is_active)), card_ord,
                 PyInt(created_at), DefaultedDue(next_due, created_at),
                 template_front, template_back>>)

(***************************************************************************)
(* The window: initial states and actions                                  *)
(***************************************************************************)
DbIdle ==
    /\ schema = <<>>
    /\ rows = [t \in {} |-> <<>>]
    /\ now = 1
    /\ call = [op |-> "none"]
    /\ raised = ""
    /\ ret = PyNone

\* DecksWindow.__init__ up to the status message, before the trees are filled
GuiInit(entries) ==
    /\ pc = "init"
    /\ demo = entries
    /\ deck_tree = <<>>
    /\ deck_table = <<>>
    /\ selected = NoItem
    /\ current_item = NoItem
    /\ status = "Mockup: left = deck tree, right = counts (New/Learn/Due)"
    /\ connected = FALSE
    /\ act_decks_checked = TRUE
    /\ dialogs = <<>>

Init == GuiInit(DemoDecks) /\ DbIdle

InitBuild == (\E entries \in SeqsUpTo(Entries, MaxEntries) : GuiInit(entries)) /\ DbIdle

\* the rest of __init__: fill both trees, select the first deck, then connect
Construct ==
    /\ pc = "init"
    /\ LET left == BuildLeftTree(demo)
           right == BuildRightTree(demo)
           idx == FirstIndex(left)
           r == EmitSelectionChanged(connected, left, right, idx, current_item, status)
       IN /\ deck_tree' = left
          /\ deck_table' = right
          /\ selected' = idx
          /\ current_item' = r.current_item
          /\ status' = r.status
    /\ connected' = TRUE
    /\ pc' = "running"
    /\ UNCHANGED <<demo, act_decks_checked, dialogs>>
    /\ UNCHANGED dbVars

\* the user selects another index of the left tree
Select(n) ==
    /\ pc = "running"
    /\ n # selected
    /\ selected' = n
    /\ LET r == EmitSelectionChanged(connected, deck_tree, deck_table, n,
                                     current_item, status)
       IN /\ current_item' = r.current_item
          /\ status' = r.status
    /\ UNCHANGED <<pc, demo, deck_tree, deck_table, connected, act_decks_checked, dialogs>>
    /\ UNCHANGED dbVars

\* the user clears the selection (Ctrl+click on the selected index)
Deselect ==
    /\ pc = "running"
    /\ selected # NoItem
    /\ selected' = NoItem
    /\ LET r == EmitSelectionChanged(connected, deck_tree, deck_table, NoItem,
                                     current_item, status)
       IN /\ current_item' = r.current_item
          /\ status' = r.status
    /\ UNCHANGED <<pc, demo, deck_tree, deck_table, connected, act_decks_checked, dialogs>>
    /\ UNCHANGED dbVars

\* a click on Decks: the checkable action toggles, then triggered(checked) runs the slot
ClickDecks ==
    /\ pc = "running"
    /\ act_decks_checked' = OnDecksToggled(~act_decks_checked)
    /\ status' = "Decks (main view)"
    /\ UNCHANGED <<pc, demo, deck_tree, deck_table, selected, current_item, connected,
                   dialogs>>
    /\ UNCHANGED dbVars

\* a click on Add, Browse or Stats: _open_blank_window(title)
OpenBlankWindow(title) ==
    /\ pc = "running"
    /\ Len(dialogs) < MaxDialogs
    /\ dialogs' = Append(dialogs, NewBlankDialog(title))
    /\ UNCHANGED <<pc, demo, deck_tree, deck_table, selected, current_item, status,
                   connected, act_decks_checked>>
    /\ UNCHANGED dbVars

\* the user clicks a row of the right tree: it becomes the current item, and
\* nothing is connected to the right tree's signals
ClickTableRow(n) ==
    /\ pc = "running"
    /\ n # current_item
    /\ current_item' = n
    /\ UNCHANGED <<pc, demo, deck_tree, deck_table, selected, status, connected,
                   act_decks_checked, dialogs>>
    /\ UNCHANGED dbVars

SelectAny == \E n \in 1..Len(deck_tree) : Select(n)
ClickTableAny == \E n \in 1..Len(deck_table) : ClickTableRow(n)
OpenAny == \E title \in Titles : OpenBlankWindow(title)

Next ==
    \/ Construct
    \/ SelectAny
    \/ Deselect
    \/ ClickTableAny
    \/ ClickDecks
    \/ OpenAny

Spec == Init /\ [][Next]_vars

NextBuild == Construct

SpecBuild == InitBuild /\ [][NextBuild]_vars

\* the handler on any pair of trees: the window after construction, its right
\* tree built from a list of its own
InitSync ==
    /\ \E dl \in SeqsUpTo(SyncEntries, MaxSyncLeft),
          dr \in SeqsUpTo(SyncEntries, MaxEntries) :
          /\ demo = dl
          /\ deck_tree = BuildLeftTree(dl)
          /\ deck_table = BuildRightTree(dr)
    /\ pc = "running"
    /\ selected = NoItem
    /\ current_item = NoItem
    /\ status = "Mockup: left = deck tree, right = counts (New/Learn/Due)"
    /\ connected = TRUE
    /\ act_decks_checked = TRUE
    /\ dialogs = <<>>
    /\ DbIdle

NextSync ==
    \/ SelectAny
    \/ Deselect
    \/ ClickTableAny

SpecSync == InitSync /\ [][NextSync]_vars

(***************************************************************************)
(* Properties of the window                                                *)
(***************************************************************************)
LeftPath(n) == PathToRoot(deck_tree, n)

RECURSIVE RightPathOf(_, _)
RightPathOf(items, n) ==
    IF n = NoItem THEN <<>>
    ELSE Append(RightPathOf(items, items[n].parent), items[n].text[1])

RightPath(n) == RightPathOf(deck_table, n)

LeftAt(p) == { n \in 1..Len(deck_tree) : LeftPath(n) = p }
RightAt(p) == { n \in 1..Len(deck_table) : RightPath(n) = p }

Prefixes(p) == { SubSeq(p, 1, k) : k \in 1..Len(p) }

\* C1: once the trees are built, every prefix of every entry's path is the
\* path of exactly one node of the left tree and of exactly one node of the
\* right tree, and no parent has two children of the same name, in either tree.
C1_OneNodePerPrefix ==
    pc = "running" =>
        /\ \A i \in 1..Len(demo) : \A p \in Prefixes(demo[i][1]) :
              /\ Cardinality(LeftAt(p)) = 1
              /\ Cardinality(RightAt(p)) = 1
        /\ \A m, n \in 1..Len(deck_tree) :
              (m # n /\ deck_tree[m].parent = deck_tree[n].parent)
                  => deck_tree[m].text # deck_tree[n].text
        /\ \A m, n \in 1..Len(deck_table) :
              (m # n /\ deck_table[m].parent = deck_table[n].parent)
                  => deck_table[m].text[1] # deck_table[n].text[1]

\* two entries with different leaves under a shared two-name prefix, built
C1_Witness ==
    /\ pc = "running"
    /\ \E i, j \in 1..Len(demo) :
          /\ demo[i][1] # demo[j][1]
          /\ Len(demo[i][1]) = 3 /\ Len(demo[j][1]) = 3
          /\ SubSeq(demo[i][1], 1, 2) = SubSeq(demo[j][1], 1, 2)
    /\ Len(deck_tree) = 4 /\ Len(deck_table) = 4

\* a character of a count's text as a digit
DigitValue(ch) ==
    CASE ch = "0" -> 0 [] ch = "1" -> 1 [] ch = "2" -> 2 [] ch = "3" -> 3
      [] ch = "4" -> 4 [] ch = "5" -> 5 [] ch = "6" -> 6 [] ch = "7" -> 7
      [] ch = "8" -> 8 [] ch = "9" -> 9

RECURSIVE TextValue(_)
\* the number a non-empty string of digits shows
TextValue(t) ==
    IF Len(t) = 1 THEN DigitValue(t)
    ELSE 10 * TextValue(SubSeq(t, 1, Len(t) - 1)) + DigitValue(SubSeq(t, Len(t), Len(t)))

\* the row shows the three counts
ShowsCounts(item, counts) ==
    \A c \in 1..3 : item.text[c + 1] # "" /\ TextValue(item.text[c + 1]) = counts[c]

EntriesAt(p) == { i \in 1..Len(demo) : demo[i][1] = p }

\* C7: in the built right tree a row whose path is the full path of no entry
\* has three empty count cells, and a row whose path is the full path of an
\* entry shows the counts of the last entry with that path, whether or not it
\* has children and wherever the entry stands in the list.
C7_CountsOnTerminalOnly ==
    pc = "running" =>
        \A n \in 1..Len(deck_table) :
            LET es == EntriesAt(RightPath(n))
            IN IF es = {}
               THEN \A c \in 2..4 : deck_table[n].text[c] = ""
               ELSE ShowsCounts(deck_table[n],
                                demo[CHOOSE i \in es : \A j \in es : j <= i][2])

\* an entry is a proper ancestor of an earlier entry: its row has a child
\* already when its counts are written
C7_Witness ==
    /\ pc = "running"
    /\ Len(demo) = 2
    /\ demo[2][1] = Front(demo[1][1])
    /\ \E n \in 1..Len(deck_table) :
          /\ RightPath(n) = demo[2][1]
          /\ Children(deck_table, n) # {}
          /\ ShowsCounts(deck_table[n], demo[2][2])
    /\ \E n \in 1..Len(deck_table) :
          EntriesAt(RightPath(n)) = {} /\ deck_table[n].text[2] = ""

NeutralColor == "gray"
AccentColor(c) == CASE c = 1 -> "accent A" [] c = 2 -> "accent B" [] c = 3 -> "accent C"

\* C8: every count cell of a terminal row is drawn in the neutral colour when
\* the count is zero and in its column's accent colour otherwise.
C8_CountColors ==
    pc = "running" =>
        \A n \in 1..Len(deck_table) :
            EntriesAt(RightPath(n)) # {} =>
                \A c \in 1..3 :
                    deck_table[n].foreground[c + 1] =
                        IF TextValue(deck_table[n].text[c + 1]) = 0
                        THEN NeutralColor ELSE AccentColor(c)

\* C2: every step that selects a node of the left tree leaves the right tree's
\* current item on the node whose root-to-node names are the selected node's,
\* and the status naming the path, when the right tree has such a node;
\* otherwise it leaves the current item empty and the status "not found".
C2_SelectionMirrored ==
    [][ (selected' # selected /\ selected' # NoItem) =>
          LET p == PathToRoot(deck_tree', selected')
              at == { n \in 1..Len(deck_table') : RightPathOf(deck_table', n) = p }
          IN IF at # {}
             THEN /\ current_item' \in at
                  /\ status' = "Selected deck: " \o Join(" / ", p)
             ELSE /\ current_item' = NoItem
                  /\ status' = NotFoundMessage ]_vars

\* a two-name path selected whose first name the right tree has and whose
\* second it has not: the walk fails at depth two
C2_Witness ==
    /\ selected # NoItem
    /\ Len(LeftPath(selected)) = 2
    /\ RightAt(Front(LeftPath(selected))) # {}
    /\ RightAt(LeftPath(selected)) = {}
    /\ current_item = NoItem
    /\ status = NotFoundMessage

\* C10: while the window runs, a selected node of the left tree has its
\* counterpart as the right tree's current item, and "not found" never shows.
C10_AlwaysMirrored ==
    pc = "running" =>
        /\ selected # NoItem =>
              /\ current_item # NoItem
              /\ RightPath(current_item) = LeftPath(selected)
        /\ status # NotFoundMessage

\* C6: the Decks action is checked after every click; a click that opens a
\* window adds one non-modal blank window titled Add, Browse or Stats and
\* changes nothing else, and a click on Decks leaves the windows as they were.
C6_DecksAlwaysChecked ==
    /\ [](act_decks_checked)
    /\ [][ /\ act_decks_checked'
           /\ dialogs' # dialogs =>
                 /\ Len(dialogs') = Len(dialogs) + 1
                 /\ SubSeq(dialogs', 1, Len(dialogs)) = dialogs
                 /\ dialogs'[Len(dialogs')].title \in Titles
                 /\ dialogs'[Len(dialogs')].modality = "NonModal"
                 /\ dialogs'[Len(dialogs')].visible
                 /\ act_decks_checked' = act_decks_checked
                 /\ UNCHANGED <<selected, current_item, status>> ]_vars

\* Decks has been clicked with a blank window open
C6_Witness ==
    /\ pc = "running"
    /\ Len(dialogs) > 0
    /\ status = "Decks (main view)"
    /\ act_decks_checked

(***************************************************************************)
(* The persistence helper: calls in any order on a fresh main.db           *)
(***************************************************************************)
GuiIdle == GuiInit(<<>>)

InitDb == GuiIdle /\ DbIdle

DeckNames == {PyStr("Math")}
ParentIds == {PyNone, PyInt(1), PyInt(9)}
FieldDicts == { <<>>, << <<"Front", "text">> >> }
TagValues == {PyNone, PyStr("basic")}
CardOrds == {PyInt(0), PyInt(2)}
DueTimes == {PyNone, PyInt(0), PyInt(5)}

\* a call may add a row only while the table, if there, has room
Room(table) == table \in Range(schema) => Len(rows[table]) < MaxRows

Finish(db, c, r) ==
    /\ schema' = db.schema
    /\ rows' = db.rows
    /\ raised' = db.error
    /\ call' = c
    /\ ret' = IF db.error = "" THEN r ELSE PyNone
    /\ UNCHANGED now
    /\ UNCHANGED guiVars

CreateDb ==
    Finish(create_db(Store(schema, rows)), [op |-> "create_db"], PyNone)

AddDeck(name, parent_deck_id) ==
    /\ Room("decks")
    /\ Finish(add_deck(Store(schema, rows), name, parent_deck_id),
              [op |-> "add_deck", name |-> name, parent_deck_id |-> parent_deck_id],
              PyNone)

AddCardType(fields_dict, tags) ==
    /\ Room("notes")
    /\ LET db == add_card_type(Store(schema, rows), fields_dict, tags, now)
       IN Finish(db,
                 [op |-> "add_card_type", fields_dict |-> fields_dict, tags |-> tags,
                  modified_at |-> now],
                 PyInt(db.lastrowid))

AddCard(card_type_id, deck_id, card_ord, template_front, template_back, next_due, is_active) ==
    /\ Room("cards")
    /\ Finish(add_card(Store(schema, rows), card_type_id, deck_id, card_ord,
                       template_front, template_back, next_due, is_active, now),
              [op |-> "add_card", card_type_id |-> card_type_id, deck_id |-> deck_id,
               card_ord |-> card_ord, template_front |-> template_front,
               template_back |-> template_back, next_due |-> next_due,
               is_active |-> is_active, created_at |-> now],
              PyNone)

\* time passes between calls
Tick ==
    /\ now < 1 + MaxTime
    /\ now' = now + 1
    /\ UNCHANGED <<schema, rows, call, raised, ret>>
    /\ UNCHANGED guiVars

AddDeckAny == \E name \in DeckNames, parent_deck_id \in ParentIds : AddDeck(name, parent_deck_id)
AddCardTypeAny == \E fields_dict \in FieldDicts, tags \in TagValues : AddCardType(fields_dict, tags)
AddCardAny ==
    \E card_ord \in CardOrds, next_due \in DueTimes, is_active \in BOOLEAN :
        AddCard(PyInt(1), PyInt(1), card_ord, PyStr("Q"), PyStr("A"), next_due, is_active)

NextDb ==
    \/ CreateDb
    \/ AddDeckAny
    \/ AddCardTypeAny
    \/ AddCardAny
    \/ Tick

SpecDb == InitDb /\ [][NextDb]_vars

(***************************************************************************)
(* Properties of the persistence helper                                    *)
(***************************************************************************)
Last(q) == q[Len(q)]

Initialized == Range(schema) = {"decks", "card_types", "cards"}

\* C3: a card added with no due time has next_due = created_at + 86400.
C3_DefaultDueOneDay ==
    (call.op = "add_card" /\ raised = "" /\ call.next_due = PyNone) =>
        Last(rows["cards"]).next_due = PyInt(call.created_at + 86400)

\* C4: on an initialized store add_card_type raises nothing, returns an
\* identifier, and the card-type table's last row carries that identifier.
C4_CardTypeInserted ==
    (call.op = "add_card_type" /\ Initialized) =>
        /\ raised = ""
        /\ ret.t = "int"
        /\ Len(rows["card_types"]) > 0
        /\ Last(rows["card_types"]).id = ret

\* C5: create_db never raises and returns nothing; after it the store has the
\* three tables once each; the rows of every table that was there are as they
\* were; and on a store that had the three tables it changes nothing at all.
C5_CreateDbIdempotent ==
    [][ call'.op = "create_db" =>
          /\ raised' = ""
          /\ ret' = PyNone
          /\ Len(schema') = 3
          /\ Range(schema') = {"decks", "card_types", "cards"}
          /\ DOMAIN rows' = Range(schema')
          /\ \A t \in DOMAIN rows : rows'[t] = rows[t]
          /\ Len(schema) = 3 => (schema' = schema /\ rows' = rows) ]_vars

\* create_db has run on a store that already held rows: a repeated call
C5_Witness ==
    /\ call.op = "create_db"
    /\ raised = ""
    /\ Initialized
    /\ Len(rows["decks"]) > 0
    /\ Len(rows["cards"]) > 0

\* C9: the row add_card inserts holds every argument in its own column.
C9_CardColumns ==
    (call.op = "add_card" /\ raised = "") =>
        LET row == Last(rows["cards"])
        IN /\ row.card_type_id = call.card_type_id
           /\ row.deck_id = call.deck_id
           /\ row.card_ord = call.card_ord
           /\ row.created_at = PyInt(call.created_at)
           /\ call.next_due # PyNone => row.next_due = call.next_due
           /\ row.template_front = call.template_front
           /\ row.template_back = call.template_back
           /\ row.is_active = PyInt(IF call.is_active THEN 1 ELSE 0)

====
